---- MODULE Spec2Model ----
(***************************************************************************)
(* Tool-augmented streaming response pipeline of ai-cli.                   *)
(*                                                                         *)
(*   - the streaming markdown buffer (createStreamingBuffer, renderMarkdown)*)
(*     of ui/console.ts,                                                   *)
(*   - the event generator generateText of api/gemini.ts,                  *)
(*   - the consuming loop of index.ts.                                     *)
(*                                                                         *)
(* Text is a sequence of one-character strings.  The alphabet holds the    *)
(* backtick, the newline and one ordinary character: these are the only    *)
(* characters the buffer's logic and the two first replacements of         *)
(* renderMarkdown distinguish.                                             *)
(***************************************************************************)
EXTENDS Naturals, Sequences, FiniteSets, TLC

\* one-character strings: the backtick, the newline, an ordinary character
BT == "bt"
NL == "nl"
CH == "a"
Alphabet == {BT, NL, CH}

\* ---- bounds of the model ----
\* longest fragment one append receives
MaxFragLen == 4
\* longest total text appended to one buffer
MaxTextLen == 8
\* most parts one provider stream delivers, over all its chunks
MaxStreamParts == 3
\* most responses of one interactive session
MaxTurns == 2
\* most frames the spinner's timer writes while it is set
MaxTicks == 1
\* most MCP clients handed to getToolsForModel
MaxClients == 2

SeqsUpTo(S, n) == UNION {[1..k -> S] : k \in 0..n}

\* The scenario of the specification (Hello, an opening fence with py, a
\* newline, print(1); then a newline, the closing fence, a newline, Done)
\* with every word shortened to one ordinary character.
ScenarioFirst == <<CH, BT, BT, BT, CH, NL, CH>>
ScenarioSecond == <<NL, BT, BT, BT, NL, CH>>

VARIABLES
  buffer,        \* state.buffer: the pending text
  isInCodeBlock, \* state.isInCodeBlock
  stdout,        \* the strings this buffer wrote with Deno.stdout.writeSync, one per write
  units,         \* the raw texts this buffer handed to renderMarkdown, one per call
  appended,      \* all text appended since createStreamingBuffer()
  bufOp,         \* the last operation on the buffer: "create", "append", "flush"
  gen,           \* where generateText stands: "init", "authed", "stream", "done", "failed"
  onToolCall,    \* options.onToolCall is supplied
  onToolResult,  \* options.onToolResult is supplied
  streamParts,   \* the parts of all chunks received from the provider, in order
  chunk,         \* the parts of the current chunk still to be processed
  pending,       \* the event yielded and not yet handled by the consumer (<<>> or <<event>>)
  log,           \* what the consumer and the hooks observed, in order
  drv,           \* where the loop of index.ts stands: "loop", "flushed", "caught"
  hasToolCalls,  \* the driver's hasToolCalls
  flushes,       \* how often the driver called flush on the current buffer
  turn,          \* which response of the session the driver is handling, from 1
  mode,          \* context.mode: "interactive" or "oneshot"
  modelId,       \* the model id getToolsForModel is called with
  mcp,           \* the MCP clients getToolsForModel is called with
  preferences,   \* defaultToolset of the preferences file: <<>> when the file or the field is missing
  tools,         \* how getToolsForModel ended: <<>> before the call
  spinner,       \* spinnerIntervals has "response": its interval timer is set
  frames,        \* how many frames that timer has written
  banners,       \* how many tool-call banners toolCallStart printed for this response
  stderr,        \* the error messages error() printed for this response
  history,       \* the conversation history of the session
  input,         \* what the last prompt(">") returned: <<>> for nothing
  exitCode,      \* <<>> while the process runs, <<code>> after Deno.exit(code)
  argv,          \* Deno.args, the command line after the program name
  args,          \* main's args: <<>> before parseArgs returned, <<ParsedArgs>> after
  defaultModelFromPrefs, \* defaultModel of the preferences file, the built-in default when the file is missing
  main,          \* where main stands: "start", "parsed", "context", "threw", "done"
  context,       \* main's context: <<>> before createExecutionContext returned
  err,           \* the message of what main's try block threw: <<>> for nothing
  handler        \* the handler main dispatched to: <<>> for none yet

bufVars == <<buffer, isInCodeBlock, stdout, units, appended, bufOp>>
genVars == <<gen, onToolCall, onToolResult, streamParts, chunk, pending, log>>
drvVars == <<drv, hasToolCalls, flushes, turn, mode>>
resVars == <<modelId, mcp, preferences, tools>>
uiVars == <<spinner, frames, banners, stderr>>
sesVars == <<history, input, exitCode>>
mainVars == <<argv, args, defaultModelFromPrefs, main, context, err, handler>>
vars == <<buffer, isInCodeBlock, stdout, units, appended, bufOp,
          gen, onToolCall, onToolResult, streamParts, chunk, pending, log,
          drv, hasToolCalls, flushes, turn, mode,
          modelId, mcp, preferences, tools,
          spinner, frames, banners, stderr, history, input, exitCode,
          argv, args, defaultModelFromPrefs, main, context, err, handler>>

\* ---------------------------------------------------------------------
\* String helpers, as JavaScript computes them
\* ---------------------------------------------------------------------

IsFenceAt(s, i) ==
  /\ i + 2 <= Len(s)
  /\ s[i] = BT /\ s[i + 1] = BT /\ s[i + 2] = BT

\* the number of matches of the triple backtick in s: the matches do not overlap, leftmost first
RECURSIVE CountFrom(_, _)
CountFrom(s, i) ==
  IF i + 2 > Len(s) THEN 0
  ELSE IF IsFenceAt(s, i) THEN 1 + CountFrom(s, i + 3)
  ELSE CountFrom(s, i + 1)

codeBlockCount(s) == CountFrom(s, 1)

Odd(n) == n % 2 = 1

Suffix(s, i) == SubSeq(s, i, Len(s))

\* index of the first c in s at or after i, 0 when there is none
FirstIndex(s, c, i) ==
  LET hits == {k \in i..Len(s) : s[k] = c}
  IN IF hits = {} THEN 0 ELSE CHOOSE k \in hits : \A m \in hits : k <= m

FirstFence(s, i) ==
  LET hits == {k \in i..Len(s) : IsFenceAt(s, k)}
  IN IF hits = {} THEN 0 ELSE CHOOSE k \in hits : \A m \in hits : k <= m

\* s.split("\n")
RECURSIVE split(_)
split(s) ==
  LET n == FirstIndex(s, NL, 1)
  IN IF n = 0 THEN <<s>>
     ELSE <<SubSeq(s, 1, n - 1)>> \o split(Suffix(s, n + 1))

\* lines.join("\n")
RECURSIVE join(_)
join(lines) ==
  IF Len(lines) = 0 THEN <<>>
  ELSE IF Len(lines) = 1 THEN lines[1]
  ELSE lines[1] \o <<NL>> \o join(Tail(lines))

\* lines.pop(): the array without its last element
Popped(lines) == SubSeq(lines, 1, Len(lines) - 1)


\* ---------------------------------------------------------------------
\* renderMarkdown (ui/console.ts)
\*
\* The rendered text is a sequence of the same characters plus the tokens
\* of the panel drawn around a code block.  The styler adds colour codes
\* only; the model keeps the text it wraps (the output under NO_COLOR).
\* ---------------------------------------------------------------------
SP == " "
BoxTop == "<top>"      \* the corner that opens the panel header
BoxDash == "<dash>"    \* the dash that closes a header holding a language
BoxBar == "<bar>"      \* the bar and space in front of every code line
BoxEnd == "<end>"      \* the footer

\* lines.map(line => bar + line)
RECURSIVE BarLines(_)
BarLines(lines) ==
  IF Len(lines) = 0 THEN <<>>
  ELSE <<<<BoxBar>> \o lines[1]>> \o BarLines(Tail(lines))

\* the replacement callback of the code block pattern
CodeBlockPanel(lang, code) ==
  LET all == split(code)
      lines == IF all[Len(all)] = <<>> THEN Popped(all) ELSE all
      formatted == join(BarLines(lines))
      header == IF lang # <<>>
                THEN <<BoxTop, SP>> \o lang \o <<SP, BoxDash>>
                ELSE <<BoxTop>>
  IN <<NL>> \o header \o <<NL>> \o formatted \o <<NL, BoxEnd, NL>>

\* result.replace(<fence, lang up to the newline, code up to the next fence>)
\* The leftmost fence starts the match; lang runs to the first newline
\* after it and code to the first fence after that newline.  When the
\* leftmost fence finds no newline or no closing fence, no later start
\* position finds one either, and the rest is kept as it is.
RECURSIVE ReplaceCodeBlocks(_)
ReplaceCodeBlocks(s) ==
  LET i == FirstFence(s, 1)
      n == IF i = 0 THEN 0 ELSE FirstIndex(s, NL, i + 3)
      j == IF n = 0 THEN 0 ELSE FirstFence(s, n + 1)
  IN IF j = 0 THEN s
     ELSE SubSeq(s, 1, i - 1)
            \o CodeBlockPanel(SubSeq(s, i + 3, n - 1), SubSeq(s, n + 1, j - 1))
            \o ReplaceCodeBlocks(Suffix(s, j + 3))

\* result.replace(<backtick, one or more characters that are no backtick,
\* backtick>): the code between the backticks, padded with a space
RECURSIVE ReplaceInlineCode(_)
ReplaceInlineCode(s) ==
  IF Len(s) < 3 THEN s
  ELSE LET k == FirstIndex(s, BT, 3)
       IN IF s[1] = BT /\ s[2] # BT /\ k # 0
          THEN <<SP>> \o SubSeq(s, 2, k - 1) \o <<SP>>
                 \o ReplaceInlineCode(Suffix(s, k + 1))
          ELSE <<s[1]>> \o ReplaceInlineCode(Tail(s))

\* The later replacements (bold, headings, lists, quotes, rules,
\* strikethrough) need a character that is not in the alphabet nor in
\* the panel, and leave every text of the model as it is.
renderMarkdown(text) == ReplaceInlineCode(ReplaceCodeBlocks(text))


\* ---------------------------------------------------------------------
\* createStreamingBuffer (ui/console.ts)
\* ---------------------------------------------------------------------

\* the state createStreamingBuffer() starts from
createStreamingBuffer ==
  /\ buffer = <<>>
  /\ isInCodeBlock = FALSE
  /\ stdout = <<>>
  /\ units = <<>>
  /\ appended = <<>>
  /\ bufOp = "create"

\* append without the early return of a buffer inside a fence
append_IgnoringFence(text) ==
  LET buf == buffer \o text
      all == split(buf)
      incompleteLine == all[Len(all)]
      lines == Popped(all)
      completeText == join(lines) \o <<NL>>
  IN /\ isInCodeBlock' = Odd(codeBlockCount(buf))
     /\ IF Len(lines) > 0
        THEN /\ units' = Append(units, completeText)
             /\ stdout' = Append(stdout, renderMarkdown(completeText))
             /\ buffer' = incompleteLine
        ELSE /\ buffer' = buf
             /\ UNCHANGED <<stdout, units>>
     /\ appended' = appended \o text
     /\ bufOp' = "append"

\* append rendering the unfinished last line with the complete ones
append_RenderingLastLine(text) ==
  LET buf == buffer \o text
      inBlock == Odd(codeBlockCount(buf))
  IN /\ isInCodeBlock' = inBlock
     /\ IF inBlock \/ buf = <<>>
        THEN /\ buffer' = buf
             /\ UNCHANGED <<stdout, units>>
        ELSE /\ units' = Append(units, buf)
             /\ stdout' = Append(stdout, renderMarkdown(buf))
             /\ buffer' = <<>>
     /\ appended' = appended \o text
     /\ bufOp' = "append"

\* append rendering the complete lines without their last newline
append_DroppingNewline(text) ==
  LET buf == buffer \o text
      inBlock == Odd(codeBlockCount(buf))
      all == split(buf)
      incompleteLine == all[Len(all)]
      lines == Popped(all)
      completeText == join(lines)
  IN /\ isInCodeBlock' = inBlock
     /\ IF inBlock
        THEN /\ buffer' = buf
             /\ UNCHANGED <<stdout, units>>
        ELSE IF Len(lines) > 0
        THEN /\ units' = Append(units, completeText)
             /\ stdout' = Append(stdout, renderMarkdown(completeText))
             /\ buffer' = incompleteLine
        ELSE /\ buffer' = buf
             /\ UNCHANGED <<stdout, units>>
     /\ appended' = appended \o text
     /\ bufOp' = "append"

\* append(text)
append(text) ==
  LET buf == buffer \o text
      inBlock == Odd(codeBlockCount(buf))
      all == split(buf)
      incompleteLine == all[Len(all)]
      lines == Popped(all)
      completeText == join(lines) \o <<NL>>
  IN /\ isInCodeBlock' = inBlock
     /\ IF inBlock
        THEN /\ buffer' = buf
             /\ UNCHANGED <<stdout, units>>
        ELSE IF Len(lines) > 0
        THEN /\ units' = Append(units, completeText)
             /\ stdout' = Append(stdout, renderMarkdown(completeText))
             /\ buffer' = incompleteLine
        ELSE /\ buffer' = buf
             /\ UNCHANGED <<stdout, units>>
     /\ appended' = appended \o text
     /\ bufOp' = "append"

\* flush keeping back a buffer that is inside a fence
flush_KeepingOpenFence ==
  /\ IF buffer # <<>> /\ ~isInCodeBlock
     THEN /\ units' = Append(units, buffer)
          /\ stdout' = Append(stdout, renderMarkdown(buffer))
          /\ buffer' = <<>>
     ELSE UNCHANGED <<buffer, stdout, units>>
  /\ bufOp' = "flush"
  /\ UNCHANGED <<isInCodeBlock, appended>>

\* flush()
flush ==
  /\ IF buffer # <<>>
     THEN /\ units' = Append(units, buffer)
          /\ stdout' = Append(stdout, renderMarkdown(buffer))
          /\ buffer' = <<>>
     ELSE UNCHANGED <<buffer, stdout, units>>
  /\ bufOp' = "flush"
  /\ UNCHANGED <<isInCodeBlock, appended>>

\* ---------------------------------------------------------------------
\* The model catalog (api/model.ts), the stored toolset preference
\* (core/preferences.ts) and getToolsForModel (api/gemini.ts)
\* ---------------------------------------------------------------------
\* the toolSupport object of a catalog entry; defaultTools is <<>> when
\* the entry has none
ToolSupport(code, search, multi, dflt) ==
  [codeExecution |-> code, googleSearch |-> search,
   multiToolSupport |-> multi, defaultTools |-> dflt]

NoToolSupport == ToolSupport(FALSE, FALSE, FALSE, <<>>)
AllToolSupport == ToolSupport(TRUE, TRUE, TRUE, <<>>)

\* the catalog, reduced to the toolSupport of each model
GEMINI_MODELS ==
  ("gemini-2.0-flash-exp" :> AllToolSupport) @@
  ("gemini-2.5-flash-preview-05-20" :> AllToolSupport) @@
  ("gemini-2.5-flash-preview-native-audio-dialog" :> NoToolSupport) @@
  ("gemini-2.5-pro-preview-05-06" :> AllToolSupport) @@
  ("gemini-2.0-flash" :> ToolSupport(TRUE, TRUE, FALSE, <<"codeExecution">>)) @@
  ("gemini-1.5-pro" :> NoToolSupport) @@
  ("gemini-1.5-flash" :> NoToolSupport) @@
  ("gemini-1.5-flash-8b" :> NoToolSupport) @@
  ("gemini-1.5-pro-002" :> NoToolSupport) @@
  ("gemini-1.5-flash-002" :> NoToolSupport) @@
  ("gemini-embedding-exp-03-07" :> NoToolSupport)

MODEL_IDS == DOMAIN GEMINI_MODELS

getDefaultModel == "gemini-2.5-flash-preview-05-20"

\* GEMINI_MODELS is a plain object and the model id of the command line
\* is not validated: a property lookup also finds what every object
\* inherits, of which these two stand for the rest
ObjectPrototypeKeys == {"constructor", "toString"}

\* ids that name nothing at all
UnknownIds == {"not-a-real-model", "gemini-pro"}

ModelIds == MODEL_IDS \cup UnknownIds \cup ObjectPrototypeKeys

\* GEMINI_MODELS[id]: <<>> is undefined, a catalog entry carries its
\* toolSupport, an inherited property is a value without toolSupport
getModelById(id) ==
  IF id \in MODEL_IDS THEN <<[toolSupport |-> <<GEMINI_MODELS[id]>>]>>
  ELSE IF id \in ObjectPrototypeKeys THEN <<[toolSupport |-> <<>>]>>
  ELSE <<>>

\* the values a preferences file can hold as its defaultToolset
ToolsetType == {"custom", "builtin", "codeExecution", "googleSearch"}
StoredToolsets == {<<>>} \cup {<<t>> : t \in ToolsetType \cup {"legacy"}}

\* loadPreferences: a missing file, unreadable JSON or a missing field
\* give "custom"; nothing is written
loadPreferences ==
  IF preferences = <<>> THEN "custom" ELSE preferences[1]

getDefaultToolset == loadPreferences

\* the lists of MCP clients
Clients(n) == [i \in 1..n |-> i]
ClientLists == {Clients(n) : n \in 0..MaxClients}

\* the two kinds of entry of a ToolListUnion
mcpToTool(m) == [kind |-> "mcp", clients |-> m, names |-> {}]
BuiltinTool(names) == [kind |-> "builtin", clients |-> <<>>, names |-> names]

\* every client wrapped in a declaration of its own
McpOnly_OnePerClient(m) == [i \in 1..Len(m) |-> mcpToTool(<<m[i]>>)]

\* mcp.length > 0 ? [mcpToTool(...mcp, {})] : []
McpOnly(m) == IF Len(m) > 0 THEN <<mcpToTool(m)>> ELSE <<>>

\* how a call ends: with a list, or with the TypeError of reading a
\* property of undefined
Returned(list) == [threw |-> FALSE, list |-> list]
TypeError == [threw |-> TRUE, list |-> <<>>]

\* the keys of builtinTools in the multi-tool branch
builtinTools(toolSupport) ==
  (IF toolSupport.codeExecution THEN {"codeExecution"} ELSE {}) \cup
  (IF toolSupport.googleSearch THEN {"googleSearch"} ELSE {})

\* a single-tool model offered the tool that is not its default
defaultTool_IgnoringDefaultTools(toolSupport) ==
  IF toolSupport.googleSearch THEN "googleSearch" ELSE "codeExecution"

\* toolSupport.defaultTools?.[0] || (codeExecution ? ... : ...)
defaultTool(toolSupport) ==
  IF toolSupport.defaultTools # <<>> THEN toolSupport.defaultTools[1]
  ELSE IF toolSupport.codeExecution THEN "codeExecution" ELSE "googleSearch"

\* case "builtin" bundling the supported tools for every model
BuiltinCase_AlwaysBundling(toolSupport) ==
  IF builtinTools(toolSupport) # {}
  THEN <<BuiltinTool(builtinTools(toolSupport))>>
  ELSE <<>>

\* case "builtin"
BuiltinCase(toolSupport) ==
  IF toolSupport.multiToolSupport
  THEN IF builtinTools(toolSupport) # {}
       THEN <<BuiltinTool(builtinTools(toolSupport))>>
       ELSE <<>>
  ELSE <<BuiltinTool({defaultTool(toolSupport)})>>

\* the switch with the MCP tools and the built-in tools side by side
SelectTools_AddingBuiltin(selectedToolset, toolSupport, m) ==
  McpOnly(m) \o BuiltinCase(toolSupport)

\* the switch answering codeExecution and googleSearch as it answers builtin
SelectTools_SingleAsBuiltin(selectedToolset, toolSupport, m) ==
  IF selectedToolset \in {"builtin", "codeExecution", "googleSearch"}
  THEN BuiltinCase(toolSupport)
  ELSE McpOnly(m)

\* switch (selectedToolset)
SelectTools(selectedToolset, toolSupport, m) ==
  CASE selectedToolset = "custom" -> McpOnly(m)
    [] selectedToolset = "builtin" -> BuiltinCase(toolSupport)
    [] selectedToolset = "codeExecution" ->
         IF toolSupport.codeExecution
         THEN <<BuiltinTool({"codeExecution"})>> ELSE <<>>
    [] selectedToolset = "googleSearch" ->
         IF toolSupport.googleSearch
         THEN <<BuiltinTool({"googleSearch"})>> ELSE <<>>
    [] OTHER -> McpOnly(m)

\* getToolsForModel going to the switch whatever the model supports
getToolsForModel_WithoutSupportCheck(id, m) ==
  LET model == getModelById(id) IN
  IF model = <<>> THEN Returned(McpOnly(m))
  ELSE IF model[1].toolSupport = <<>> THEN TypeError
  ELSE Returned(SelectTools(getDefaultToolset, model[1].toolSupport[1], m))

\* getToolsForModel giving a model without built-in tools no tools at all
getToolsForModel_EmptyWithoutSupport(id, m) ==
  LET model == getModelById(id) IN
  IF model = <<>> THEN Returned(McpOnly(m))
  ELSE IF model[1].toolSupport = <<>> THEN TypeError
  ELSE IF /\ ~model[1].toolSupport[1].codeExecution
          /\ ~model[1].toolSupport[1].googleSearch
       THEN Returned(<<>>)
       ELSE Returned(SelectTools(getDefaultToolset, model[1].toolSupport[1], m))

getToolsForModel(id, m) ==
  LET model == getModelById(id) IN
  IF model = <<>> THEN Returned(McpOnly(m))
  ELSE LET toolSupport == model[1].toolSupport
           selectedToolset == getDefaultToolset
       IN IF toolSupport = <<>> THEN TypeError
          ELSE IF ~toolSupport[1].codeExecution /\ ~toolSupport[1].googleSearch
               THEN Returned(McpOnly(m))
               ELSE Returned(SelectTools(selectedToolset, toolSupport[1], m))

\* ---------------------------------------------------------------------
\* The buffer alone, under every sequence of fragments within the bounds
\* ---------------------------------------------------------------------
\* index.ts appends a text event only when its text is not empty
Fragments ==
  (SeqsUpTo(Alphabet, MaxFragLen) \ {<<>>}) \cup {ScenarioFirst, ScenarioSecond}

\* the bound on the text, which the scenario of the specification exceeds
Admissible(text) ==
  \/ Len(appended) + Len(text) <= MaxTextLen
  \/ appended = <<>> /\ text = ScenarioFirst
  \/ appended = ScenarioFirst /\ text = ScenarioSecond

\* what the user types at the prompt: nothing, exit, or a question
UserText == <<"q">>
ExitText == <<"exit">>
Inputs == {<<>>, ExitText, UserText}

\* the entries of the history
UserEntry(text) == [role |-> "user", text |-> text]
ModelEntry(text) == [role |-> "model", text |-> text]

\* main has dispatched to a mode: nothing of it is left to run
Dispatched ==
  /\ argv = <<>>
  /\ args = <<>>
  /\ defaultModelFromPrefs = getDefaultModel
  /\ main = "done"
  /\ context = <<>>
  /\ err = <<>>
  /\ handler = <<>>

\* generateText and the driver before the first request
Idle ==
  /\ Dispatched
  /\ gen = "init"
  /\ streamParts = <<>>
  /\ chunk = <<>>
  /\ pending = <<>>
  /\ log = <<>>
  /\ drv = "loop"
  /\ hasToolCalls = FALSE
  /\ flushes = 0
  /\ turn = 1
  /\ modelId = getDefaultModel
  /\ mcp = <<>>
  /\ preferences = <<>>
  /\ tools = <<>>
  /\ spinner = TRUE
  /\ frames = 0
  /\ banners = 0
  /\ stderr = <<>>
  /\ history = <<UserEntry(UserText)>>
  /\ input = UserText
  /\ exitCode = <<>>

InitBuf ==
  /\ createStreamingBuffer
  /\ Idle
  /\ mode = "interactive"
  /\ onToolCall = FALSE
  /\ onToolResult = FALSE

\* index.ts appends while the response streams and flushes after it
BufAppend ==
  \E text \in Fragments :
    /\ bufOp # "flush"
    /\ Admissible(text)
    /\ append(text)
    /\ UNCHANGED <<genVars, drvVars, resVars, uiVars, sesVars, mainVars>>

BufFlush == flush /\ UNCHANGED <<genVars, drvVars, resVars, uiVars, sesVars, mainVars>>

NextBuf == BufAppend \/ BufFlush

SpecBuf == InitBuf /\ [][NextBuf]_vars


\* ---------------------------------------------------------------------
\* generateText (api/gemini.ts) and the loop consuming it (index.ts)
\*
\* An optional field is a sequence: <<>> when absent, <<value>> when
\* present.  Names, parameters and results are sequences of tokens; the
\* empty sequence stands for a missing name or for the empty object.
\* ---------------------------------------------------------------------
Text1 == <<NL, CH>>

Part(fc, fr, tx) == [functionCall |-> fc, functionResponse |-> fr, text |-> tx]

\* the parts a chunk of the provider may hold
Parts ==
  { Part(<<>>, <<>>, <<Text1>>),                                      \* text
    Part(<<>>, <<>>, <<<<>>>>),                                       \* empty text
    Part(<<[name |-> <<"search">>, args |-> <<"q">>]>>, <<>>, <<>>),  \* tool call
    Part(<<[name |-> <<>>, args |-> <<>>]>>, <<>>, <<>>),             \* tool call, no name, no args
    Part(<<>>, <<[name |-> <<"search">>, response |-> <<"r">>]>>, <<>>), \* tool result
    Part(<<[name |-> <<"search">>, args |-> <<"q">>]>>, <<>>, <<Text1>>) } \* tool call and text

Unknown == <<"unknown">>

Entry(t, kind, name, payload, part) ==
  [t |-> t, kind |-> kind, name |-> name, payload |-> payload, part |-> part]

\* the provider and the credentials getProvider, getVertexConfig and
\* getApiKey find: the provider and whether its credentials are stored
AuthStates == {"vertex-ai", "gemini-api"} \X BOOLEAN

\* what a supplied hook may do
HookOutcomes == {"returns", "throws"}

\* for (const part of ...parts): the part the loop body runs on
CurrentPart_Last(c) == c[Len(c)]

CurrentPart(c) == Head(c)

\* the loop body reordered: the event is yielded before the hook is called
EmitCall_YieldFirst(part, idx) ==
  LET toolName == IF part.functionCall[1].name # <<>>
                  THEN part.functionCall[1].name ELSE Unknown
      params == part.functionCall[1].args
  IN <<Entry("event", "toolCall", toolName, params, idx)>>
       \o (IF onToolCall
           THEN <<Entry("hook", "onToolCall", toolName, params, idx)>>
           ELSE <<>>)

\* the branch of a part with a functionCall: the hook call, if a hook is
\* supplied, then the yield
EmitCall(part, idx) ==
  LET toolName == IF part.functionCall[1].name # <<>>
                  THEN part.functionCall[1].name ELSE Unknown
      params == part.functionCall[1].args
  IN (IF onToolCall
      THEN <<Entry("hook", "onToolCall", toolName, params, idx)>>
      ELSE <<>>)
       \o <<Entry("event", "toolCall", toolName, params, idx)>>

\* the branch of a part with a functionResponse
EmitResult(part, idx) ==
  LET toolName == IF part.functionResponse[1].name # <<>>
                  THEN part.functionResponse[1].name ELSE Unknown
      result == part.functionResponse[1].response
  IN (IF onToolResult
      THEN <<Entry("hook", "onToolResult", toolName, result, idx)>>
      ELSE <<>>)
       \o <<Entry("event", "toolResult", toolName, result, idx)>>

\* the branch of a part with a text that is not empty
EmitText(part, idx) == <<Entry("event", "text", <<>>, part.text[1], idx)>>

\* the if / else if chain of the loop body: what one part makes the hooks
\* and the consumer see
Emit(part, idx) ==
  IF part.functionCall # <<>> THEN EmitCall(part, idx)
  ELSE IF part.functionResponse # <<>> THEN EmitResult(part, idx)
  ELSE IF part.text # <<>> /\ part.text[1] # <<>> THEN EmitText(part, idx)
  ELSE <<>>

\* generateText sending the request before it looks at the credentials
GenStart_RequestBeforeCheck ==
  /\ gen = "init"
  /\ \E auth \in AuthStates :
       IF auth[2]
       THEN /\ gen' = "authed"
            /\ UNCHANGED log
       ELSE /\ gen' = "failed"
            /\ log' = log \o <<Entry("request", "", <<>>, <<>>, 0),
                               Entry("error", "credentials", <<auth[1]>>, <<>>, 0)>>
  /\ UNCHANGED <<onToolCall, onToolResult, streamParts, chunk, pending>>
  /\ UNCHANGED <<bufVars, drvVars, resVars, uiVars, sesVars, mainVars>>

\* generateText up to the client: the credentials are read, and without
\* them the generator throws before it creates a client
GenStart ==
  /\ gen = "init"
  /\ \E auth \in AuthStates :
       IF auth[2]
       THEN /\ gen' = "authed"
            /\ UNCHANGED log
       ELSE /\ gen' = "failed"
            /\ log' = Append(log, Entry("error", "credentials", <<auth[1]>>, <<>>, 0))
  /\ UNCHANGED <<onToolCall, onToolResult, streamParts, chunk, pending>>
  /\ UNCHANGED <<bufVars, drvVars, resVars, uiVars, sesVars, mainVars>>

\* the tools are resolved and generateContentStream is awaited: the
\* request goes out and either opens the stream or fails
GenRequest ==
  /\ gen = "authed"
  /\ tools' = <<getToolsForModel(modelId, mcp)>>
  /\ IF tools'[1].threw
     THEN /\ gen' = "failed"
          /\ log' = Append(log, Entry("error", "tools", <<>>, <<>>, 0))
     ELSE \E ok \in BOOLEAN :
       IF ok
       THEN /\ gen' = "stream"
            /\ log' = Append(log, Entry("request", "", <<>>, <<>>, 0))
       ELSE /\ gen' = "failed"
            /\ log' = log \o <<Entry("request", "", <<>>, <<>>, 0),
                               Entry("error", "call", <<>>, <<>>, 0)>>
  /\ UNCHANGED <<onToolCall, onToolResult, streamParts, chunk, pending>>
  /\ UNCHANGED <<bufVars, drvVars, modelId, mcp, preferences, uiVars, sesVars, mainVars>>

\* for await (const chunk of response): the consumer asked for the next
\* event, the current chunk is exhausted, and the provider delivers a
\* chunk.  A chunk without candidates or parts is a chunk of no parts.
GenNextChunk ==
  /\ gen = "stream" /\ chunk = <<>> /\ pending = <<>> /\ drv = "loop"
  /\ \E c \in SeqsUpTo(Parts, MaxStreamParts - Len(streamParts)) :
       /\ chunk' = c
       /\ streamParts' = streamParts \o c
  /\ UNCHANGED <<gen, onToolCall, onToolResult, pending, log>>
  /\ UNCHANGED <<bufVars, drvVars, resVars, uiVars, sesVars, mainVars>>

\* the provider closes the stream: the generator returns
GenStreamEnd ==
  /\ gen = "stream" /\ chunk = <<>> /\ pending = <<>> /\ drv = "loop"
  /\ gen' = "done"
  /\ UNCHANGED <<onToolCall, onToolResult, streamParts, chunk, pending, log>>
  /\ UNCHANGED <<bufVars, drvVars, resVars, uiVars, sesVars, mainVars>>

\* the stream fails (network error, malformed response): the iteration
\* of the response throws
GenStreamFail ==
  /\ gen = "stream" /\ chunk = <<>> /\ pending = <<>> /\ drv = "loop"
  /\ gen' = "failed"
  /\ log' = Append(log, Entry("error", "stream", <<>>, <<>>, 0))
  /\ UNCHANGED <<onToolCall, onToolResult, streamParts, chunk, pending>>
  /\ UNCHANGED <<bufVars, drvVars, resVars, uiVars, sesVars, mainVars>>

\* what the hooks index.ts supplies do when the part makes generateText
\* call one: onToolCall hides the spinner and prints the banner of the
\* call, onToolResult prints an empty line
HookEffects(out) ==
  IF \E i \in 1..Len(out) : out[i].t = "hook" /\ out[i].kind = "onToolCall"
  THEN /\ spinner' = FALSE
       /\ banners' = banners + 1
       /\ UNCHANGED <<frames, stderr>>
  ELSE UNCHANGED uiVars

\* the loop body catching what a hook throws and going on to the yield
GenPart_SwallowingHookError ==
  /\ gen = "stream" /\ chunk # <<>> /\ pending = <<>> /\ drv = "loop"
  /\ LET part == CurrentPart(chunk)
         idx == Len(streamParts) - Len(chunk) + 1
         out == Emit(part, idx)
         hooked == \E i \in 1..Len(out) : out[i].t = "hook"
     IN \E outcome \in HookOutcomes :
          /\ outcome = "throws" => hooked
          /\ log' = IF outcome = "throws"
                    THEN log \o <<Entry("error", "hook", <<>>, <<>>, idx)>> \o out
                    ELSE log \o out
          /\ chunk' = Tail(chunk)
          /\ pending' = SelectSeq(out, LAMBDA e : e.t = "event")
  /\ HookEffects(Emit(CurrentPart(chunk), 0))
  /\ UNCHANGED <<gen, onToolCall, onToolResult, streamParts>>
  /\ UNCHANGED <<bufVars, drvVars, resVars, sesVars, mainVars>>

\* one turn of the loop over the parts: the generator runs from the
\* consumer's request to its next yield, to the throw of a hook, or to
\* the next part when the part yields nothing
GenPart ==
  /\ gen = "stream" /\ chunk # <<>> /\ pending = <<>> /\ drv = "loop"
  /\ LET part == CurrentPart(chunk)
         idx == Len(streamParts) - Len(chunk) + 1
         out == Emit(part, idx)
         hooked == \E i \in 1..Len(out) : out[i].t = "hook"
     IN \E outcome \in HookOutcomes :
          /\ outcome = "throws" => hooked
          /\ IF outcome = "throws"
             THEN /\ gen' = "failed"
                  /\ log' = log \o <<CHOOSE e \in {out[i] : i \in 1..Len(out)} : e.t = "hook",
                                     Entry("error", "hook", <<>>, <<>>, idx)>>
                  /\ UNCHANGED <<chunk, pending>>
             ELSE /\ gen' = gen
                  /\ log' = log \o out
                  /\ chunk' = Tail(chunk)
                  /\ pending' = SelectSeq(out, LAMBDA e : e.t = "event")
  /\ HookEffects(Emit(CurrentPart(chunk), 0))
  /\ UNCHANGED <<onToolCall, onToolResult, streamParts>>
  /\ UNCHANGED <<bufVars, drvVars, resVars, sesVars, mainVars>>

\* the loop body appending the first text without hiding the spinner
DriverHandle_KeepingSpinner ==
  /\ drv = "loop" /\ pending # <<>>
  /\ LET ev == pending[1]
     IN IF ev.kind = "text" /\ ev.payload # <<>>
        THEN /\ append(ev.payload)
             /\ UNCHANGED hasToolCalls
        ELSE IF ev.kind = "toolCall"
        THEN /\ hasToolCalls' = TRUE
             /\ UNCHANGED bufVars
        ELSE UNCHANGED <<bufVars, hasToolCalls>>
  /\ pending' = <<>>
  /\ UNCHANGED <<gen, onToolCall, onToolResult, streamParts, chunk, log, drv>>
  /\ UNCHANGED <<flushes, turn, mode, resVars, uiVars, sesVars, mainVars>>

\* the body of for await (const chunk of stream) in index.ts: the first
\* text hides the spinner (hideSpinner does nothing when it is hidden),
\* responseText grows as the appended text does
DriverHandle ==
  /\ drv = "loop" /\ pending # <<>>
  /\ LET ev == pending[1]
     IN IF ev.kind = "text" /\ ev.payload # <<>>
        THEN /\ spinner' = FALSE
             /\ append(ev.payload)
             /\ UNCHANGED hasToolCalls
        ELSE IF ev.kind = "toolCall"
        THEN /\ hasToolCalls' = TRUE
             /\ UNCHANGED <<bufVars, spinner>>
        ELSE UNCHANGED <<bufVars, hasToolCalls, spinner>>
  /\ pending' = <<>>
  /\ UNCHANGED <<gen, onToolCall, onToolResult, streamParts, chunk, log, drv>>
  /\ UNCHANGED <<flushes, turn, mode, resVars, frames, banners, stderr, sesVars, mainVars>>

\* the stream is over: buffer.flush()
DriverFlush ==
  /\ drv = "loop" /\ gen = "done"
  /\ flush
  /\ flushes' = flushes + 1
  /\ drv' = "flushed"
  /\ history' = IF mode = "interactive"
                THEN Append(history, ModelEntry(appended))
                ELSE history
  /\ UNCHANGED <<genVars, hasToolCalls, turn, mode, resVars, uiVars>>
  /\ UNCHANGED <<input, exitCode, mainVars>>

\* the catch block ending the process in an interactive session too
DriverCatch_ExitingAlways ==
  /\ drv = "loop" /\ gen = "failed"
  /\ stderr' = Append(stderr, log[Len(log)].kind)
  /\ drv' = "exited" /\ exitCode' = <<1>>
  /\ UNCHANGED <<genVars, bufVars, hasToolCalls, flushes, turn, mode, resVars>>
  /\ UNCHANGED <<spinner, frames, banners, history, input, mainVars>>

\* catch (err): error() prints the message of what generateText threw;
\* a one-shot run then ends with Deno.exit(1), an interactive session
\* goes back to the prompt
DriverCatch ==
  /\ drv = "loop" /\ gen = "failed"
  /\ stderr' = Append(stderr, log[Len(log)].kind)
  /\ IF mode = "oneshot"
     THEN drv' = "exited" /\ exitCode' = <<1>>
     ELSE drv' = "caught" /\ UNCHANGED exitCode
  /\ UNCHANGED <<genVars, bufVars, hasToolCalls, flushes, turn, mode, resVars>>
  /\ UNCHANGED <<spinner, frames, banners, history, input, mainVars>>

\* the interval timer of the spinner fires while the program waits for
\* the provider, or for nothing after a one-shot response
SpinnerTick ==
  /\ spinner /\ exitCode = <<>> /\ frames < MaxTicks
  /\ \/ drv = "loop" /\ gen \in {"init", "authed", "stream"} /\ pending = <<>>
     \/ drv = "flushed" /\ mode = "oneshot"
  /\ frames' = frames + 1
  /\ UNCHANGED <<genVars, bufVars, drvVars, resVars, sesVars, mainVars>>
  /\ UNCHANGED <<spinner, banners, stderr>>

Modes == {"interactive", "oneshot"}

InitGen ==
  /\ createStreamingBuffer
  /\ Idle
  /\ mode \in Modes
  /\ onToolCall \in BOOLEAN
  /\ onToolResult \in BOOLEAN

NextGen ==
  \/ GenStart
  \/ GenRequest
  \/ GenNextChunk
  \/ GenStreamEnd
  \/ GenStreamFail
  \/ GenPart
  \/ DriverHandle
  \/ DriverFlush
  \/ DriverCatch

SpecGen == InitGen /\ [][NextGen]_vars

\* ---------------------------------------------------------------------
\* An interactive session: one response after the other (index.ts)
\* ---------------------------------------------------------------------
\* the user message is pushed, showSpinner sets the timer anew, and the
\* try block starts with a generator, locals and a buffer of its own
BeginResponse(text) ==
  /\ turn' = turn + 1
  /\ drv' = "loop"
  /\ hasToolCalls' = FALSE
  /\ flushes' = 0
  /\ gen' = "init"
  /\ streamParts' = <<>>
  /\ chunk' = <<>>
  /\ pending' = <<>>
  /\ log' = <<>>
  /\ buffer' = <<>>
  /\ isInCodeBlock' = FALSE
  /\ stdout' = <<>>
  /\ units' = <<>>
  /\ appended' = <<>>
  /\ bufOp' = "create"
  /\ spinner' = TRUE
  /\ frames' = 0
  /\ banners' = 0
  /\ stderr' = <<>>
  /\ history' = Append(history, UserEntry(text))
  /\ input' = text
  /\ UNCHANGED <<onToolCall, onToolResult, mode, resVars, exitCode, mainVars>>

\* the session waits in prompt(">")
AtPrompt == mode = "interactive" /\ drv \in {"idle", "flushed", "caught"}

\* while (true): the response is over, with or without an error, and the
\* next input is a question
DriverNextTurn ==
  /\ AtPrompt
  /\ turn < MaxTurns
  /\ BeginResponse(UserText)

\* if (!input) continue
DriverEmptyInput ==
  /\ AtPrompt
  /\ input' = <<>>
  /\ UNCHANGED <<genVars, bufVars, drvVars, resVars, uiVars, history, exitCode, mainVars>>

\* if (input === "exit") break
DriverExit ==
  /\ AtPrompt
  /\ input' = ExitText
  /\ drv' = "ended"
  /\ UNCHANGED <<genVars, bufVars, resVars, uiVars, history, exitCode, mainVars>>
  /\ UNCHANGED <<hasToolCalls, flushes, turn, mode>>

\* runOneshotMode: the one response of a one-shot run
DriverOneshot ==
  /\ mode = "oneshot" /\ drv = "idle"
  /\ BeginResponse(UserText)

\* main has chosen the mode; index.ts supplies both hooks
InitSession ==
  /\ createStreamingBuffer
  /\ Dispatched
  /\ gen = "init"
  /\ streamParts = <<>>
  /\ chunk = <<>>
  /\ pending = <<>>
  /\ log = <<>>
  /\ drv = "idle"
  /\ hasToolCalls = FALSE
  /\ flushes = 0
  /\ turn = 0
  /\ mode \in Modes
  /\ onToolCall = TRUE
  /\ onToolResult = TRUE
  /\ modelId = getDefaultModel
  /\ mcp = <<>>
  /\ preferences = <<>>
  /\ tools = <<>>
  /\ spinner = FALSE
  /\ frames = 0
  /\ banners = 0
  /\ stderr = <<>>
  /\ history = <<>>
  /\ input = <<>>
  /\ exitCode = <<>>

NextSession ==
  \/ NextGen
  \/ SpinnerTick
  \/ DriverNextTurn
  \/ DriverEmptyInput
  \/ DriverExit
  \/ DriverOneshot

SpecSession == InitSession /\ [][NextSession]_vars

\* ---------------------------------------------------------------------
\* The resolver alone, for every model id, client list and stored
\* preference
\* ---------------------------------------------------------------------
\* const tools = await getToolsForModel(modelId, mcp)
Resolve ==
  /\ tools = <<>>
  /\ tools' = <<getToolsForModel(modelId, mcp)>>
  /\ UNCHANGED <<modelId, mcp, preferences>>
  /\ UNCHANGED <<bufVars, genVars, drvVars, uiVars, sesVars, mainVars>>

InitResolve ==
  /\ createStreamingBuffer
  /\ Dispatched
  /\ gen = "init"
  /\ streamParts = <<>>
  /\ chunk = <<>>
  /\ pending = <<>>
  /\ log = <<>>
  /\ drv = "loop"
  /\ hasToolCalls = FALSE
  /\ flushes = 0
  /\ turn = 1
  /\ mode = "interactive"
  /\ onToolCall = FALSE
  /\ onToolResult = FALSE
  /\ modelId \in ModelIds
  /\ mcp \in ClientLists
  /\ preferences \in StoredToolsets
  /\ tools = <<>>
  /\ spinner = TRUE
  /\ frames = 0
  /\ banners = 0
  /\ stderr = <<>>
  /\ history = <<UserEntry(UserText)>>
  /\ input = UserText
  /\ exitCode = <<>>

NextResolve == Resolve

SpecResolve == InitResolve /\ [][NextResolve]_vars

\* ---------------------------------------------------------------------
\* main (index.ts): parseArgs (cli/parser.ts), the dispatch on the
\* mode, createExecutionContext (cli/modes.ts)
\* ---------------------------------------------------------------------
MaxArgs == 3

\* the sub-command words parseArgs looks for in args[0]
SubcommandModes == {"auth", "mcp", "model"}
ModelOptions == {"-m", "--model"}
HelpOptions == {"-h", "--help"}
\* an option the configuration of nodeParseArgs does not declare
UnknownOptions == {"--bogus"}
\* the words that begin with a dash
OptionLike == ModelOptions \cup HelpOptions \cup UnknownOptions

\* the words of the command lines considered
ArgTokens == {"auth", "mcp", "model", "list", "q", "-m", "-h", "--bogus",
              getDefaultModel, "gemini-1.5-pro"}

\* what the preferences file can hold as defaultModel; without the file
\* loadPreferences gives the built-in default
StoredModels == {getDefaultModel, "gemini-1.5-pro", "gemini-2.0-flash"}

\* ParsedArgs, as far as main and createExecutionContext read it
ParsedArgs(m, prompt, sub, help, model) ==
  [mode |-> m, prompt |-> prompt, mcpSubcommand |-> sub,
   options |-> [help |-> help, model |-> model]]

\* how a call ends: with a value, or with an Error carrying a message
Return(value) == [threw |-> <<>>, value |-> <<value>>]
Throw(message) == [threw |-> <<message>>, value |-> <<>>]

GuardMessage == "Auth, MCP, and Model modes should be handled before creating execution context"

\* nodeParseArgs({ args, options, allowPositionals: true }), strict: the
\* values and positionals it has collected up to word i
RECURSIVE nodeParseArgs(_, _, _)
nodeParseArgs(a, i, acc) ==
  IF i > Len(a) THEN Return(acc)
  ELSE IF a[i] \in HelpOptions
    THEN nodeParseArgs(a, i + 1, [acc EXCEPT !.help = TRUE])
  ELSE IF a[i] \in ModelOptions
    THEN IF i = Len(a) THEN Throw("argument missing")
         ELSE IF a[i + 1] \in OptionLike THEN Throw("argument is ambiguous")
         ELSE nodeParseArgs(a, i + 2, [acc EXCEPT !.model = a[i + 1]])
  ELSE IF a[i] \in UnknownOptions THEN Throw("Unknown option")
  ELSE nodeParseArgs(a, i + 1,
                     [acc EXCEPT !.positionals = Append(acc.positionals, a[i])])

parseArgs(a) ==
  IF Len(a) > 0 /\ a[1] = "auth"
    THEN Return(ParsedArgs("auth", <<>>, <<>>, FALSE, getDefaultModel))
  ELSE IF Len(a) > 0 /\ a[1] = "mcp"
    THEN Return(ParsedArgs("mcp", <<>>,
                           <<IF Len(a) > 1 THEN a[2] ELSE "help">>,
                           FALSE, getDefaultModel))
  ELSE IF Len(a) > 0 /\ a[1] = "model"
    THEN Return(ParsedArgs("model", <<>>, <<>>, FALSE, getDefaultModel))
  ELSE
    LET r == nodeParseArgs(a, 1, [help |-> FALSE, model |-> getDefaultModel,
                                  positionals |-> <<>>])
    IN IF r.threw # <<>> THEN r
       ELSE LET values == r.value[1]
            IN Return(ParsedArgs(
                 IF Len(values.positionals) > 0 THEN "oneshot" ELSE "interactive",
                 IF Len(values.positionals) > 0 THEN <<values.positionals>> ELSE <<>>,
                 <<>>, values.help, values.model))

\* getDefaultModelFromPreferences() is the stored value, fromPrefs
createExecutionContext(a, fromPrefs) ==
  IF a.mode = "auth" \/ a.mode = "mcp" \/ a.mode = "model"
    THEN Throw(GuardMessage)
    ELSE LET modelToUse == IF a.options.model # getDefaultModel
                             THEN a.options.model
                             ELSE fromPrefs
         IN Return([mode |-> a.mode, prompt |-> a.prompt,
                    options |-> [a.options EXCEPT !.model = modelToUse]])

\* switch (args.mcpSubcommand)
McpHandler(sub) ==
  CASE sub = "add" -> "addMcpServer"
    [] sub = "list" -> "listMcpServers"
    [] sub = "remove" -> "removeMcpServer"
    [] OTHER -> "showMcpHelp"

\* const args = parseArgs(Deno.args)
MainParse ==
  /\ main = "start"
  /\ LET r == parseArgs(argv)
     IN IF r.threw # <<>>
          THEN main' = "threw" /\ err' = r.threw /\ UNCHANGED args
          ELSE main' = "parsed" /\ args' = r.value /\ UNCHANGED err
  /\ UNCHANGED <<argv, defaultModelFromPrefs, context, handler>>
  /\ UNCHANGED <<bufVars, genVars, drvVars, resVars, uiVars, sesVars>>

\* what the three early returns of main and the call of
\* createExecutionContext leave unchanged
Dispatch(name) ==
  /\ handler' = <<name>>
  /\ main' = "done"
  /\ UNCHANGED <<argv, args, defaultModelFromPrefs, context, err>>
  /\ UNCHANGED <<bufVars, genVars, drvVars, resVars, uiVars, sesVars>>

\* if (args.options.help) { showHelp(); return; }
MainHelp ==
  /\ main = "parsed"
  /\ args[1].options.help
  /\ Dispatch("showHelp")

\* if (args.mode === "auth") { await runAuth(); return; }
MainAuth ==
  /\ main = "parsed"
  /\ ~args[1].options.help
  /\ args[1].mode = "auth"
  /\ Dispatch("runAuth")

\* if (args.mode === "mcp") { switch (args.mcpSubcommand) ...; return; }
MainMcp ==
  /\ main = "parsed"
  /\ ~args[1].options.help
  /\ args[1].mode = "mcp"
  /\ Dispatch(McpHandler(args[1].mcpSubcommand[1]))

\* const context = await createExecutionContext(args)
MainCreateContext ==
  /\ main = "parsed"
  /\ ~args[1].options.help
  /\ args[1].mode \notin {"auth", "mcp"}
  /\ LET r == createExecutionContext(args[1], defaultModelFromPrefs)
     IN IF r.threw # <<>>
          THEN main' = "threw" /\ err' = r.threw /\ UNCHANGED context
          ELSE main' = "context" /\ context' = r.value /\ UNCHANGED err
  /\ UNCHANGED <<argv, args, defaultModelFromPrefs, handler>>
  /\ UNCHANGED <<bufVars, genVars, drvVars, resVars, uiVars, sesVars>>

\* if (context.mode === "interactive") runInteractiveMode(context, mcpClient)
\* else runOneshotMode(context, mcpClient)
MainRun ==
  /\ main = "context"
  /\ handler' = <<IF context[1].mode = "interactive"
                    THEN "runInteractiveMode" ELSE "runOneshotMode">>
  /\ main' = "done"
  /\ mode' = context[1].mode
  /\ modelId' = context[1].options.model
  /\ UNCHANGED <<argv, args, defaultModelFromPrefs, context, err>>
  /\ UNCHANGED <<drv, hasToolCalls, flushes, turn, mcp, preferences, tools>>
  /\ UNCHANGED <<bufVars, genVars, uiVars, sesVars>>

\* catch (err) { error(...); Deno.exit(1); }
MainCatch ==
  /\ main = "threw"
  /\ stderr' = Append(stderr, err[1])
  /\ exitCode' = <<1>>
  /\ main' = "exited"
  /\ UNCHANGED <<argv, args, defaultModelFromPrefs, context, err, handler>>
  /\ UNCHANGED <<bufVars, genVars, drvVars, resVars, spinner, frames, banners>>
  /\ UNCHANGED <<history, input>>

\* the process starts with a command line and a preferences file
InitMain ==
  /\ createStreamingBuffer
  /\ gen = "init"
  /\ streamParts = <<>>
  /\ chunk = <<>>
  /\ pending = <<>>
  /\ log = <<>>
  /\ drv = "idle"
  /\ hasToolCalls = FALSE
  /\ flushes = 0
  /\ turn = 0
  /\ mode = "interactive"
  /\ onToolCall = TRUE
  /\ onToolResult = TRUE
  /\ modelId = getDefaultModel
  /\ mcp = <<>>
  /\ preferences = <<>>
  /\ tools = <<>>
  /\ spinner = FALSE
  /\ frames = 0
  /\ banners = 0
  /\ stderr = <<>>
  /\ history = <<>>
  /\ input = <<>>
  /\ exitCode = <<>>
  /\ argv \in SeqsUpTo(ArgTokens, MaxArgs)
  /\ args = <<>>
  /\ defaultModelFromPrefs \in StoredModels
  /\ main = "start"
  /\ context = <<>>
  /\ err = <<>>
  /\ handler = <<>>

NextMain ==
  \/ MainParse
  \/ MainHelp
  \/ MainAuth
  \/ MainMcp
  \/ MainCreateContext
  \/ MainRun
  \/ MainCatch

SpecMain == InitMain /\ [][NextMain]_vars

\* ---------------------------------------------------------------------
\* Properties of the streaming buffer
\* ---------------------------------------------------------------------

\* the text the last append received
Delta == SubSeq(appended', Len(appended) + 1, Len(appended'))

\* index of the last newline of s, 0 when there is none
LastNewline(s) ==
  LET hits == {k \in 1..Len(s) : s[k] = NL}
  IN IF hits = {} THEN 0 ELSE CHOOSE k \in hits : \A m \in hits : m <= k

RECURSIVE Concat(_)
Concat(ss) == IF Len(ss) = 0 THEN <<>> ELSE ss[1] \o Concat(Tail(ss))

\* C1: after every append, isInCodeBlock is the parity of the fence markers
\* in all the text appended since the buffer was created (odd = inside).
C1_FenceStateIsParityOfAllText ==
  bufOp = "append" => (isInCodeBlock <=> Odd(codeBlockCount(appended)))

\* C2: every unit append hands to the renderer holds an even number of
\* fence markers (no appends follow a flush, so before the first flush
\* every unit comes from an append).
C2_AppendRendersFenceCompleteUnits ==
  bufOp # "flush" => \A i \in 1..Len(units) : ~Odd(codeBlockCount(units[i]))

\* C3: for a text with balanced fences, however it is split, the output of
\* the appends followed by the output of the flush is the render of the
\* whole text.
C3_SplitRenderEqualsWholeRender ==
  (bufOp = "flush" /\ ~Odd(codeBlockCount(appended)))
    => Concat(stdout) = renderMarkdown(appended)

\* C4: an append that leaves an odd number of fence markers in the pending
\* buffer writes nothing and keeps the previous buffer followed by the text.
C4_InsideFenceAppendOnlyAccumulates ==
  [][(bufOp' = "append" /\ Odd(codeBlockCount(buffer \o Delta)))
       => /\ stdout' = stdout
          /\ units' = units
          /\ buffer' = buffer \o Delta]_vars

C4_Witness ==
  /\ bufOp = "append"
  /\ isInCodeBlock
  /\ Len(units) > 0
  /\ LastNewline(buffer) # 0

\* the one unit the scenario renders: everything up to the last newline
C5_ScenarioUnit == <<CH, BT, BT, BT, CH, NL, CH, NL, BT, BT, BT, NL>>

\* C5: an append that ends outside a fence renders, as one unit, the pending
\* text up to and including its last newline (nothing without a newline) and
\* keeps the text after that newline; in the scenario of the specification
\* the first append writes nothing, the second renders the one block with
\* the whole fence and leaves the last word pending.
C5_OutsideFenceRendersCompleteLines ==
  /\ [][(bufOp' = "append" /\ ~isInCodeBlock')
          => LET buf == buffer \o Delta
                 n == LastNewline(buf)
             IN IF n = 0
                THEN stdout' = stdout /\ units' = units /\ buffer' = buf
                ELSE /\ units' = Append(units, SubSeq(buf, 1, n))
                     /\ stdout' = Append(stdout, renderMarkdown(SubSeq(buf, 1, n)))
                     /\ buffer' = Suffix(buf, n + 1)]_vars
  /\ []((appended = ScenarioFirst /\ bufOp = "append") => stdout = <<>>)
  /\ []((appended = ScenarioFirst \o ScenarioSecond /\ bufOp = "append")
          => /\ units = <<C5_ScenarioUnit>>
             /\ Len(stdout) = 1
             /\ buffer = <<CH>>)

C5_Witness ==
  /\ bufOp = "append"
  /\ appended = ScenarioFirst \o ScenarioSecond
  /\ buffer = <<CH>>
  /\ Len(units) = 1

\* C6: flush renders the whole pending buffer whatever the fence state and
\* empties it; on an empty buffer (so also right after a flush) it writes
\* nothing.
C6_FlushRendersAllAndClears ==
  [][bufOp' = "flush"
       => /\ buffer' = <<>>
          /\ buffer # <<>> => /\ units' = Append(units, buffer)
                              /\ stdout' = Append(stdout, renderMarkdown(buffer))
          /\ buffer = <<>> => stdout' = stdout /\ units' = units]_vars

C6_Witness ==
  /\ bufOp = "flush"
  /\ buffer = <<>>
  /\ Len(units) > 0
  /\ Odd(codeBlockCount(units[Len(units)]))


\* ---------------------------------------------------------------------
\* Properties of generateText and of the loop consuming it
\* ---------------------------------------------------------------------

\* the events delivered to the consumer, in order
Events == SelectSeq(log, LAMBDA e : e.t = "event")

\* the hook calls and the events, in order
HooksAndEvents == SelectSeq(log, LAMBDA e : e.t = "hook" \/ e.t = "event")

\* the number of parts whose turn of the loop is over
Processed == Len(streamParts) - Len(chunk)

NameOf(n) == IF n = <<>> THEN Unknown ELSE n

HasCall(part) == part.functionCall # <<>>
HasResult(part) == part.functionResponse # <<>>
HasText(part) == part.text # <<>> /\ part.text[1] # <<>>

SignalCount(part) ==
  (IF HasCall(part) THEN 1 ELSE 0) + (IF HasResult(part) THEN 1 ELSE 0)
    + (IF HasText(part) THEN 1 ELSE 0)

\* the entry e carries a signal of the part it names, unchanged
FromItsPart(e) ==
  /\ e.part \in 1..Len(streamParts)
  /\ LET part == streamParts[e.part]
     IN \/ /\ e.kind \in {"toolCall", "onToolCall"}
           /\ HasCall(part)
           /\ e.name = NameOf(part.functionCall[1].name)
           /\ e.payload = part.functionCall[1].args
        \/ /\ e.kind \in {"toolResult", "onToolResult"}
           /\ HasResult(part)
           /\ e.name = NameOf(part.functionResponse[1].name)
           /\ e.payload = part.functionResponse[1].response
        \/ /\ e.kind = "text"
           /\ HasText(part)
           /\ e.payload = part.text[1]

\* C7: the events are yielded in the order of their parts, chunk after
\* chunk and part after part; each event is one part's signal unchanged (no
\* two are merged), and every part with one signal has its event.
C7_EventsInPartOrder ==
  LET ev == Events
  IN /\ \A i \in 1..Len(ev) : FromItsPart(ev[i])
     /\ \A i, j \in 1..Len(ev) : i < j => ev[i].part < ev[j].part
     /\ \A k \in 1..Processed :
          SignalCount(streamParts[k]) = 1 => \E i \in 1..Len(ev) : ev[i].part = k

C7_Witness ==
  /\ gen = "done"
  /\ Len(Events) = 3
  /\ Events[1].kind = "toolCall"
  /\ Events[2].kind = "toolResult"
  /\ Events[3].kind = "text"

\* the text events the driver has handled so far
C8_TextHandled ==
  LET tx == SelectSeq(Events, LAMBDA e : e.kind = "text")
      n == IF pending # <<>> /\ pending[1].kind = "text" THEN Len(tx) - 1 ELSE Len(tx)
  IN SubSeq(tx, 1, n)

RECURSIVE PayloadsOf(_)
PayloadsOf(es) == IF Len(es) = 0 THEN <<>> ELSE es[1].payload \o PayloadsOf(Tail(es))

\* C8: every tool call, tool result and text carried by a received part is
\* yielded as an event, also when one part carries several of them, and
\* the driver appends every text event it was handed.
C8_NoSignalDropped ==
  /\ \A k \in 1..Processed :
       LET part == streamParts[k]
           mine == {Events[i] : i \in {j \in 1..Len(Events) : Events[j].part = k}}
       IN /\ HasCall(part) => \E e \in mine : e.kind = "toolCall"
          /\ HasResult(part) => \E e \in mine : e.kind = "toolResult"
          /\ HasText(part) => \E e \in mine : e.kind = "text"
  /\ appended = PayloadsOf(C8_TextHandled)

\* C9: a supplied hook is called once for each tool call or tool result
\* part, with the name and the payload of that part, right before the event
\* of the part is delivered; a hook that is not supplied and a text part
\* call nothing; hook calls and events come in the same order.
C9_HooksMatchEvents ==
  LET h == HooksAndEvents
      Supplied(kind) == IF kind = "toolCall" THEN onToolCall
                        ELSE IF kind = "toolResult" THEN onToolResult
                        ELSE FALSE
      HookOf(kind) == IF kind = "toolCall" THEN "onToolCall" ELSE "onToolResult"
  IN /\ \A i \in 1..Len(h) :
          (h[i].t = "event" /\ Supplied(h[i].kind))
            => /\ i > 1
               /\ h[i - 1] = [h[i] EXCEPT !.t = "hook", !.kind = HookOf(h[i].kind)]
     /\ \A i \in 1..Len(h) :
          h[i].t = "hook"
            => /\ h[i].kind \in {"onToolCall", "onToolResult"}
               /\ h[i].kind = "onToolCall" => onToolCall
               /\ h[i].kind = "onToolResult" => onToolResult
               /\ FromItsPart(h[i])
               /\ \A j \in 1..Len(h) : (h[j].t = "hook" /\ h[j].part = h[i].part) => j = i
               /\ IF i < Len(h)
                  THEN /\ h[i + 1].t = "event"
                       /\ h[i + 1].part = h[i].part
                       /\ h[i + 1].kind # "text"
                  ELSE gen = "failed"
     /\ \A k \in 1..Processed :
          LET part == streamParts[k]
              calls == {i \in 1..Len(h) : h[i].t = "hook" /\ h[i].part = k}
          IN Cardinality(calls) =
               IF HasCall(part) THEN (IF onToolCall THEN 1 ELSE 0)
               ELSE IF HasResult(part) THEN (IF onToolResult THEN 1 ELSE 0)
               ELSE 0

C9_Witness ==
  /\ gen = "done"
  /\ onToolCall /\ onToolResult
  /\ Len(HooksAndEvents) = 5
  /\ HooksAndEvents[1].kind = "onToolCall"
  /\ HooksAndEvents[2].kind = "toolCall"
  /\ HooksAndEvents[3].kind = "text"
  /\ HooksAndEvents[4].kind = "onToolResult"
  /\ HooksAndEvents[5].kind = "toolResult"

\* the errors thrown to the consumer
C10_Errors == SelectSeq(log, LAMBDA e : e.t = "error")

\* C10: when the request or the stream fails, the consumer has been handed
\* the events of every chunk delivered before, in order, then gets one
\* error and nothing after it; without credentials the error comes before
\* any event and before any request to the provider.
C10_FailureIsTerminal ==
  /\ [](/\ Len(C10_Errors) = (IF gen = "failed" THEN 1 ELSE 0)
        /\ gen = "failed" => log[Len(log)].t = "error"
        /\ (gen = "failed" /\ log[Len(log)].kind \in {"call", "stream"})
             => /\ chunk = <<>> /\ pending = <<>>
                /\ \A k \in 1..Len(streamParts) :
                     SignalCount(streamParts[k]) >= 1
                       => \E i \in 1..Len(Events) : Events[i].part = k
                /\ \A i, j \in 1..Len(Events) : i < j => Events[i].part < Events[j].part
        /\ (gen = "failed" /\ log[Len(log)].kind = "credentials")
             => Len(log) = 1 /\ streamParts = <<>>)
  /\ [][gen = "failed" => (log' = log /\ pending' = pending /\ gen' = gen)]_vars

C10_Witness ==
  /\ drv = "caught"
  /\ log[Len(log)].kind = "stream"
  /\ Len(Events) >= 2
  /\ Len(chunk) = 0

\* ---------------------------------------------------------------------
\* Properties of tool resolution
\* ---------------------------------------------------------------------

\* getToolsForModel was called and has ended
Resolved == tools # <<>>
\* it ended with a TypeError
Threw == tools[1].threw
\* the list it returned
Output == tools[1].list
\* the model id is a key of the catalog
Known == modelId \in MODEL_IDS
\* the catalog's toolSupport of the model
Support == GEMINI_MODELS[modelId]
\* the positions of the built-in and of the wrapping declarations
BuiltinDecls == {i \in 1..Len(Output) : Output[i].kind = "builtin"}
McpDecls == {i \in 1..Len(Output) : Output[i].kind = "mcp"}
\* one declaration wrapping every client given, or the empty list
ExternalOnly ==
  IF mcp = <<>> THEN <<>>
  ELSE <<[kind |-> "mcp", clients |-> mcp, names |-> {}]>>
\* one declaration of exactly these built-in tools
OneBuiltin(names) == <<[kind |-> "builtin", clients |-> <<>>, names |-> names]>>
\* the built-in tools the catalog says the model supports
Supported ==
  {t \in {"codeExecution", "googleSearch"} :
     \/ t = "codeExecution" /\ Support.codeExecution
     \/ t = "googleSearch" /\ Support.googleSearch}

\* C11: for a catalog model without multiToolSupport, whatever the
\* preference and the clients, the output holds at most one built-in
\* declaration and that declaration names exactly one built-in tool; with
\* preference builtin and no clients the output has at most one entry.
C11_SingleBuiltinTool ==
  (Resolved /\ Known /\ ~Support.multiToolSupport) =>
    /\ ~Threw
    /\ Cardinality(BuiltinDecls) <= 1
    /\ \A i \in BuiltinDecls : Cardinality(Output[i].names) = 1
    /\ (preferences = <<"builtin">> /\ mcp = <<>>) => Len(Output) <= 1

C11_Witness ==
  /\ Resolved /\ modelId = "gemini-2.0-flash"
  /\ preferences = <<"builtin">> /\ mcp = <<>>
  /\ Cardinality(BuiltinDecls) = 1

\* C12: with preference builtin and a catalog model supporting a built-in
\* tool, a multi-tool model gets exactly one declaration holding every
\* built-in tool it supports; any other model gets exactly one declaration
\* for defaultTools[0] or, without defaultTools, for code execution if
\* supported and else search.  gemini-2.0-flash gets exactly one
\* code-execution declaration.
C12_BuiltinPreference ==
  (Resolved /\ Known /\ preferences = <<"builtin">> /\ Supported # {}) =>
    /\ ~Threw
    /\ Support.multiToolSupport => Output = OneBuiltin(Supported)
    /\ ~Support.multiToolSupport =>
         Output = OneBuiltin({IF Support.defaultTools # <<>>
                              THEN Support.defaultTools[1]
                              ELSE IF Support.codeExecution
                                   THEN "codeExecution"
                                   ELSE "googleSearch"})
    /\ modelId = "gemini-2.0-flash" => Output = OneBuiltin({"codeExecution"})

C12_Witness ==
  /\ Resolved /\ preferences = <<"builtin">> /\ mcp # <<>>
  /\ \/ modelId = "gemini-2.0-flash" /\ Output = OneBuiltin({"codeExecution"})
     \/ modelId = "gemini-2.5-pro-preview-05-06"
        /\ Output = OneBuiltin({"codeExecution", "googleSearch"})

\* C13 as stated: with preference builtin and a catalog model supporting
\* neither built-in tool, the output is the empty list whatever clients
\* were given.
C13_EmptyWithoutSupport ==
  (Resolved /\ Known /\ preferences = <<"builtin">> /\ Supported = {}) =>
    (~Threw /\ Output = <<>>)

\* C13, amended: with preference builtin and a catalog model supporting
\* neither built-in tool, the output holds no built-in declaration: it is
\* the empty list when no client was given and one declaration wrapping
\* the clients otherwise.
C13_ExternalWithoutSupport ==
  (Resolved /\ Known /\ preferences = <<"builtin">> /\ Supported = {}) =>
    (~Threw /\ BuiltinDecls = {} /\ Output = ExternalOnly)

C13_Witness ==
  /\ Resolved /\ modelId = "gemini-1.5-flash"
  /\ preferences = <<"builtin">> /\ mcp # <<>>
  /\ Len(Output) = 1

\* the toolset preference asks for this one built-in tool
SingleToolAsked ==
  IF preferences = <<"codeExecution">> THEN "codeExecution" ELSE "googleSearch"
AsksSingleTool == preferences \in {<<"codeExecution">>, <<"googleSearch">>}

\* C14 as stated: with preference codeExecution (googleSearch), for every
\* catalog model and every client list, the output is one declaration of
\* that tool alone when the model supports it and the empty list when it
\* does not.
C14_SingleToolOrEmpty ==
  (Resolved /\ Known /\ AsksSingleTool) =>
    /\ ~Threw
    /\ Output = IF SingleToolAsked \in Supported
                THEN OneBuiltin({SingleToolAsked})
                ELSE <<>>

\* C14, amended: with preference codeExecution (googleSearch), for every
\* catalog model and every client list, the output is one declaration of
\* that tool alone when the model supports it; when it does not, the
\* output holds no built-in declaration: the empty list if the model
\* supports the other built-in tool or no client was given, one
\* declaration wrapping the clients otherwise.
C14_SingleToolOrFallback ==
  (Resolved /\ Known /\ AsksSingleTool) =>
    /\ ~Threw
    /\ Output = IF SingleToolAsked \in Supported
                THEN OneBuiltin({SingleToolAsked})
                ELSE IF Supported # {} THEN <<>> ELSE ExternalOnly

C14_Witness ==
  /\ Resolved /\ Known /\ preferences = <<"googleSearch">>
  /\ Supported = {} /\ mcp # <<>>
  /\ McpDecls # {}

\* C15: with preference custom, for every catalog model, the output is
\* one declaration wrapping all the clients when there are any and the
\* empty list when there are none; it never holds a built-in tool.
C15_CustomPreference ==
  (Resolved /\ Known /\ preferences = <<"custom">>) =>
    /\ ~Threw
    /\ Output = ExternalOnly
    /\ BuiltinDecls = {}
    /\ \A i \in McpDecls : Output[i].clients = mcp

C15_Witness ==
  /\ Resolved /\ preferences = <<"custom">>
  /\ modelId = "gemini-2.5-flash-preview-05-20"
  /\ Len(mcp) = MaxClients
  /\ Len(Output) = 1

\* C16: for a model id that is not in the catalog, resolution does not
\* throw and returns, under every preference, what preference custom
\* returns for the same clients: one declaration wrapping them, or the
\* empty list.
C16_UnknownModelDegrades ==
  (Resolved /\ ~Known) => (~Threw /\ Output = ExternalOnly)

\* C17: for a catalog model supporting neither built-in tool, the output
\* is one declaration wrapping the clients when there is a client and
\* the empty list when there is none, whatever the stored preference.
C17_NoSupportGivesMcpOnly ==
  (Resolved /\ Known /\ Supported = {}) =>
    /\ ~Threw
    /\ mcp # <<>> => (Len(Output) = 1 /\ Output[1].kind = "mcp"
                                      /\ Output[1].clients = mcp)
    /\ mcp = <<>> => Output = <<>>

C17_Witness ==
  /\ Resolved /\ modelId = "gemini-embedding-exp-03-07"
  /\ preferences = <<"codeExecution">> /\ mcp # <<>>
  /\ Output[1].kind = "mcp"

\* C18: for every model id, preference and client list, the output never
\* holds both a declaration wrapping clients and a built-in declaration.
C18_McpAndBuiltinExclusive ==
  Resolved => (McpDecls = {} \/ BuiltinDecls = {})

C18_Witness ==
  /\ Resolved /\ mcp # <<>>
  /\ BuiltinDecls # {} /\ McpDecls = {}

\* ---------------------------------------------------------------------
\* Properties of the driver's use of the buffer
\* ---------------------------------------------------------------------

\* C20: for each response the driver handles, in a turn of an interactive
\* session or in a one-shot run, flush is called exactly once on the
\* buffer of that response, after the last event of the sequence was
\* consumed and never before; after it the buffer is empty, and the next
\* response starts with a fresh buffer.
C20_FlushOncePerResponse ==
  /\ [](flushes <= 1)
  /\ [](drv \in {"flushed", "caught", "exited"} => (flushes = 1 /\ buffer = <<>>))
  /\ [][flushes' = flushes + 1 =>
          (/\ gen \in {"done", "failed"} /\ pending = <<>> /\ chunk = <<>>
           /\ bufOp' = "flush" /\ buffer' = <<>>)]_vars
  /\ [][(turn' # turn /\ turn > 0) =>
          (/\ flushes = 1
           /\ buffer' = <<>> /\ ~isInCodeBlock' /\ appended' = <<>>
           /\ flushes' = 0)]_vars

\* C30: for every catalog model, every stored preference and every client
\* list, each built-in tool named in the output is one the catalog says
\* the model supports; so is the defaultTools[0] of a model without
\* multiToolSupport.
C30_OnlySupportedBuiltinTools ==
  (Resolved /\ Known) =>
    /\ ~Threw
    /\ \A i \in BuiltinDecls : Output[i].names \subseteq Supported
    /\ (~Support.multiToolSupport /\ Support.defaultTools # <<>>) =>
         Support.defaultTools[1] \in Supported

C30_Witness ==
  /\ Resolved /\ modelId = "gemini-2.0-flash" /\ preferences = <<"builtin">>
  /\ BuiltinDecls # {}
  /\ \A i \in BuiltinDecls : Output[i].names = {Support.defaultTools[1]}

\* C25: the raw texts handed to the renderer, by the appends and then by
\* the flush, concatenated, are the appended fragments concatenated: before
\* the flush they and the pending buffer make up all appended text, after
\* it they alone do, whether or not the fences are balanced.
C25_RawTextConserved ==
  /\ Concat(units) \o buffer = appended
  /\ bufOp = "flush" => Concat(units) = appended

C25_Witness ==
  /\ bufOp = "flush"
  /\ Len(units) >= 2
  /\ Odd(codeBlockCount(appended))
  /\ Concat(units) = appended

\* the positions of the log at which a hook threw
HookErrors == {k \in 1..Len(log) : log[k].t = "error" /\ log[k].kind = "hook"}

\* C24: when a supplied onToolCall or onToolResult hook throws, the
\* exception ends the sequence as its terminal error: the generator has
\* failed, the event of that hook call is not yielded, nothing of a later
\* part is processed, and the hook was called once for that part.
C24_HookErrorIsTerminal ==
  \A k \in HookErrors :
    /\ gen = "failed"
    /\ k = Len(log)
    /\ pending = <<>>
    /\ log[k - 1].t = "hook" /\ log[k - 1].part = log[k].part
    /\ \A i \in 1..Len(log) :
         log[i].part = log[k].part =>
           /\ log[i].t # "event"
           /\ log[i].t = "hook" => i = k - 1
    /\ \A i \in 1..Len(log) : log[i].part <= log[k].part
    /\ Len(chunk) >= 1
    /\ Len(streamParts) - Len(chunk) + 1 = log[k].part

C24_Witness ==
  /\ HookErrors # {}
  /\ log[Len(log) - 1].kind = "onToolResult"
  /\ Len(chunk) >= 2
  /\ Len(Events) >= 1

\* ---------------------------------------------------------------------
\* Properties of the driver
\* ---------------------------------------------------------------------

\* the requests generateText sent to the provider for this response
Requests == SelectSeq(log, LAMBDA e : e.t = "request")

C26_PendingTextRenderedOnFailure ==
  drv \in {"caught", "exited"} =>
    (buffer = <<>> /\ Concat(units) = appended)

\* the texts of the text events of this response, in order, concatenated
RECURSIVE TextOf(_)
TextOf(es) ==
  IF es = <<>> THEN <<>>
  ELSE (IF Head(es).kind = "text" THEN Head(es).payload ELSE <<>>)
         \o TextOf(Tail(es))

\* C27: in an interactive session the history alternates user and model
\* entries, starting with a user entry, after any turns, failed ones
\* included; a successful turn adds the user input and then one model
\* entry whose text is that turn's text events concatenated in order;
\* an empty input and exit add nothing and send no request.
C27_HistoryAlternates ==
  /\ [](mode = "interactive" =>
          \A i \in 1..Len(history) :
            history[i].role = IF Odd(i) THEN "user" ELSE "model")
  /\ [][(mode = "interactive" /\ drv' = "flushed" /\ drv = "loop") =>
          /\ history' = Append(history, ModelEntry(TextOf(Events)))
          /\ history[Len(history)] = UserEntry(input)]_vars
  /\ [][(input' # input /\ input' \in {<<>>, ExitText}) =>
          (history' = history /\ log' = log /\ gen' = gen)]_vars

\* C28: when a response has completed without error, the spinner started
\* for its request is no longer active, whatever events the sequence
\* held: none, tool results only, or any others.
C28_SpinnerStoppedOnCompletion ==
  drv = "flushed" => ~spinner

\* C29: while the timer of the spinner is set, the buffer has rendered no
\* text of the current response and no tool-call banner has been printed;
\* the step that appends the first text and the step that prints a banner
\* hide the spinner themselves, so no frame is written once output began.
C29_SpinnerNeverOverOutput ==
  /\ [](spinner => (stdout = <<>> /\ appended = <<>> /\ banners = 0))
  /\ [][appended' # appended /\ appended' # <<>> => ~spinner']_vars
  /\ [][banners' > banners => ~spinner']_vars
  /\ [][frames' > frames => (spinner /\ stdout = <<>> /\ banners = 0)]_vars

C29_Witness ==
  /\ ~spinner /\ frames >= 1
  /\ stdout # <<>> /\ banners >= 1
  /\ drv = "loop"

\* ---------------------------------------------------------------------
\* Properties of main
\* ---------------------------------------------------------------------

\* the value of the last -m or --model of a command line that
\* nodeParseArgs reads: <<>> when the command line has none
ExplicitModel(a) ==
  LET at == {i \in 1..(Len(a) - 1) : a[i] \in ModelOptions}
  IN IF at = {} THEN <<>>
     ELSE <<a[(CHOOSE i \in at : \A j \in at : j <= i) + 1]>>

\* C22: the model of the command line (-m) takes precedence over the
\* model stored in the preferences file, which takes precedence over the
\* built-in default: the context's model is every explicitly passed id,
\* the built-in default included, and the stored one only without -m
C22_CommandLineModelFirst ==
  context # <<>> =>
    context[1].options.model =
      IF ExplicitModel(argv) # <<>> THEN ExplicitModel(argv)[1]
      ELSE defaultModelFromPrefs

\* C23: every sub-command mode parseArgs returns (auth, mcp, model) is
\* dispatched to its own handler before an execution context is
\* created: the guard error of createExecutionContext is never thrown
\* in main, and the model sub-command does not end in an error exit
C23_SubcommandsDispatched ==
  (args # <<>> /\ args[1].mode \in SubcommandModes) =>
    /\ err # <<GuardMessage>>
    /\ exitCode = <<>>
    /\ main \in {"parsed", "done"}
    /\ main = "done" => handler # <<>>

====
